---- MODULE Spec2Model ----
(***************************************************************************)
(* Model of the tax-identifier resolution pipeline of main.py:             *)
(*   - the string helpers (normalize_mst, slugify_vi, expand_abbreviations,*)
(*     build_masothue_link),                                               *)
(*   - request_json_with_retry (the backoff controller),                   *)
(*   - process_excel (the per-row fallback chain and the batch loop),      *)
(*   - process_excel as the file system sees it (checkpoints, final        *)
(*     writes, the move of the input, runs cut short and started again),   *)
(*   - normalize_mst and tvpl_pick_best_row on their own, and              *)
(*   - the pooled lookup tra_cuu_nhieu_mst of test_mst.py.                 *)
(*                                                                         *)
(* A Python string is modelled as a sequence of tokens.  A token is one    *)
(* character, or a literal fragment of a format string that the program    *)
(* never looks into.  The empty string is <<>>.  Letters with diacritics   *)
(* are written as the base letter followed by the VNI digits of its marks  *)
(* in NFD order ("O6" is O with circumflex, "E56" is E with dot below and  *)
(* circumflex, "D9"/"d9" is the barred D), so that case mapping and NFD    *)
(* stripping are explicit tables.                                          *)
(***************************************************************************)
EXTENDS Integers, Sequences, FiniteSets, TLC

(* ------------------------------ bounds --------------------------------- *)
\* number of rows of the input sheet
NRows == 2

\* number of rows of the input sheet in the batch view
BatchRows == 61

\* number of times process_excel is started on the same input
MaxRuns == 2

(* ------------------------- program constants --------------------------- *)
API_MAX_RETRIES == 5
API_BACKOFF_BASE == 2
API_BACKOFF_CAP == 60
LONG_BREAK_EVERY == 60
CHECKPOINT_EVERY == 30

(* ------------------------------ characters ----------------------------- *)
Digits == {"0", "1", "2", "3", "4", "5", "6", "7", "8", "9"}

Whitespace == {" ", "\t"}

LowerAscii ==
    {"a", "b", "c", "d", "e", "f", "g", "h", "i", "j", "k", "l", "m",
     "n", "o", "p", "q", "r", "s", "t", "u", "v", "w", "x", "y", "z"}

UpperTable ==
    "a" :> "A" @@ "b" :> "B" @@ "c" :> "C" @@ "d" :> "D" @@ "e" :> "E" @@ "f" :> "F" @@
    "g" :> "G" @@ "h" :> "H" @@ "i" :> "I" @@ "j" :> "J" @@ "k" :> "K" @@ "l" :> "L" @@
    "m" :> "M" @@ "n" :> "N" @@ "o" :> "O" @@ "p" :> "P" @@ "q" :> "Q" @@ "r" :> "R" @@
    "s" :> "S" @@ "t" :> "T" @@ "u" :> "U" @@ "v" :> "V" @@ "w" :> "W" @@ "x" :> "X" @@
    "y" :> "Y" @@ "z" :> "Z" @@ "a2" :> "A2" @@ "a1" :> "A1" @@ "a6" :> "A6" @@
    "e6" :> "E6" @@ "i2" :> "I2" @@ "o6" :> "O6" @@ "d9" :> "D9" @@ "o7" :> "O7" @@
    "u7" :> "U7" @@ "a5" :> "A5" @@ "a3" :> "A3" @@ "a61" :> "A61" @@ "a62" :> "A62" @@
    "a56" :> "A56" @@ "e56" :> "E56" @@ "i5" :> "I5" @@ "o63" :> "O63" @@ "o56" :> "O56" @@
    "u5" :> "U5" @@ "u74" :> "U74" @@ "u75" :> "U75" @@ "y4" :> "Y4"

LowerTable ==
    "A" :> "a" @@ "B" :> "b" @@ "C" :> "c" @@ "D" :> "d" @@ "E" :> "e" @@ "F" :> "f" @@
    "G" :> "g" @@ "H" :> "h" @@ "I" :> "i" @@ "J" :> "j" @@ "K" :> "k" @@ "L" :> "l" @@
    "M" :> "m" @@ "N" :> "n" @@ "O" :> "o" @@ "P" :> "p" @@ "Q" :> "q" @@ "R" :> "r" @@
    "S" :> "s" @@ "T" :> "t" @@ "U" :> "u" @@ "V" :> "v" @@ "W" :> "w" @@ "X" :> "x" @@
    "Y" :> "y" @@ "Z" :> "z" @@ "A2" :> "a2" @@ "A1" :> "a1" @@ "A6" :> "a6" @@
    "E6" :> "e6" @@ "I2" :> "i2" @@ "O6" :> "o6" @@ "D9" :> "d9" @@ "O7" :> "o7" @@
    "U7" :> "u7" @@ "A5" :> "a5" @@ "A3" :> "a3" @@ "A61" :> "a61" @@ "A62" :> "a62" @@
    "A56" :> "a56" @@ "E56" :> "e56" @@ "I5" :> "i5" @@ "O63" :> "o63" @@ "O56" :> "o56" @@
    "U5" :> "u5" @@ "U74" :> "u74" @@ "U75" :> "u75" @@ "Y4" :> "y4"

BaseTable ==
    "a2" :> "a" @@ "a1" :> "a" @@ "a6" :> "a" @@ "e6" :> "e" @@ "i2" :> "i" @@ "o6" :> "o" @@
    "d9" :> "d" @@ "o7" :> "o" @@ "u7" :> "u" @@ "a5" :> "a" @@ "a3" :> "a" @@
    "a61" :> "a" @@ "a62" :> "a" @@ "a56" :> "a" @@ "e56" :> "e" @@ "i5" :> "i" @@
    "o63" :> "o" @@ "o56" :> "o" @@ "u5" :> "u" @@ "u74" :> "u" @@ "u75" :> "u" @@
    "y4" :> "y"

abbreviation_map ==
    <<"C", "T">> :> <<"C", "O6", "N", "G", " ", "T", "Y">> @@
    <<"C", "T", "Y">> :> <<"C", "O6", "N", "G", " ", "T", "Y">> @@
    <<"T", "N", "H", "H">> :> <<"T", "R", "A1", "C", "H", " ", "N", "H", "I", "E56", "M", " ", "H", "U74", "U", " ", "H", "A5", "N">> @@
    <<"C", "P">> :> <<"C", "O63", " ", "P", "H", "A62", "N">> @@
    <<"T", "M">> :> <<"T", "H", "U7", "O7", "N", "G", " ", "M", "A5", "I">> @@
    <<"D", "V">> :> <<"D", "I5", "C", "H", " ", "V", "U5">> @@
    <<"X", "D">> :> <<"X", "A6", "Y", " ", "D", "U75", "N", "G">> @@
    <<"K", "T">> :> <<"K", "Y4", " ", "T", "H", "U", "A56", "T">> @@
    <<"D9", "T">> :> <<"D9", "A62", "U", " ", "T", "U7">> @@
    <<"D", "T">> :> <<"D9", "A62", "U", " ", "T", "U7">> @@
    <<"C", "T", "G", "T">> :> <<"C", "O6", "N", "G", " ", "T", "R", "I2", "N", "H", " ", "G", "I", "A", "O", " ", "T", "H", "O6", "N", "G">> @@
    <<"M", "T", "V">> :> <<"M", "O56", "T", " ", "T", "H", "A2", "N", "H", " ", "V", "I", "E6", "N">> @@
    <<"V", "L", "X", "D">> :> <<"V", "A56", "T", " ", "L", "I", "E56", "U", " ", "X", "A6", "Y", " ", "D", "U75", "N", "G">> @@
    <<"S", "X">> :> <<"S", "A3", "N", " ", "X", "U", "A61", "T">> @@
    <<"G", "T">> :> <<"G", "I", "A", "O", " ", "T", "H", "O6", "N", "G">>

Upper(c) == IF c \in DOMAIN UpperTable THEN UpperTable[c] ELSE c

Lower(c) == IF c \in DOMAIN LowerTable THEN LowerTable[c] ELSE c

\* unicodedata.normalize("NFD") followed by dropping the combining marks,
\* then the replacement of the barred d
Deaccent(c) == IF c \in DOMAIN BaseTable THEN BaseTable[c] ELSE c

UpperSeq(s) == [i \in 1..Len(s) |-> Upper(s[i])]

LowerSeq(s) == [i \in 1..Len(s) |-> Lower(s[i])]

DeaccentSeq(s) == [i \in 1..Len(s) |-> Deaccent(s[i])]

RECURSIVE LStripSet(_, _)
LStripSet(s, S) ==
    IF s # <<>> /\ Head(s) \in S THEN LStripSet(Tail(s), S) ELSE s

RECURSIVE RStripSet(_, _)
RStripSet(s, S) ==
    IF s # <<>> /\ s[Len(s)] \in S THEN RStripSet(SubSeq(s, 1, Len(s) - 1), S) ELSE s

\* str.strip(): S is the set of characters stripped from both ends
StripSet(s, S) == RStripSet(LStripSet(s, S), S)

\* re.sub("[S]+", r, s): every maximal run of characters of S becomes r
RECURSIVE CollapseRuns(_, _, _)
CollapseRuns(s, S, r) ==
    IF s = <<>> THEN <<>>
    ELSE IF Head(s) \in S THEN r \o CollapseRuns(LStripSet(s, S), S, r)
    ELSE <<Head(s)>> \o CollapseRuns(Tail(s), S, r)

\* re.sub("[^K]+", r, s): every maximal run of characters outside K becomes r
RECURSIVE CollapseOutside(_, _, _)
CollapseOutside(s, K, r) ==
    IF s = <<>> THEN <<>>
    ELSE IF Head(s) \notin K
         THEN r \o CollapseOutside(LStripSet(s, {s[i] : i \in 1..Len(s)} \ K), K, r)
    ELSE <<Head(s)>> \o CollapseOutside(Tail(s), K, r)

clean_text(s) == StripSet(CollapseRuns(s, Whitespace, <<" ">>), Whitespace)

IsDigit(c) == c \in Digits

is_13_numbers_CountsDigits(mst) == Len(SelectSeq(mst, IsDigit)) = 13

is_13_numbers(mst) == Len(mst) = 13 /\ \A i \in 1..Len(mst) : IsDigit(mst[i])

fix_dash_AfterThird(mst) ==
    IF is_13_numbers(mst) THEN SubSeq(mst, 1, 3) \o <<"-">> \o SubSeq(mst, 4, 13)
    ELSE mst

fix_dash(mst) ==
    IF is_13_numbers(mst) THEN SubSeq(mst, 1, 10) \o <<"-">> \o SubSeq(mst, 11, 13)
    ELSE mst

IsNotSpace(c) == c \notin Whitespace

IsMstChar(c) == c \in Digits \cup {"-"}

normalize_mst(v) ==
    LET s1 == StripSet(v, Whitespace)
        s2 == SelectSeq(s1, IsNotSpace)
        s3 == SelectSeq(s2, IsMstChar)
    IN  fix_dash(s3)

slugify_vi(text) ==
    LET s0 == StripSet(text, Whitespace)
        s1 == LowerSeq(s0)
        s2 == DeaccentSeq(s1)
        s3 == CollapseOutside(s2, LowerAscii \cup Digits, <<"-">>)
        s4 == CollapseRuns(s3, {"-"}, <<"-">>)
    IN  IF s0 = <<>> THEN <<>> ELSE StripSet(s4, {"-"})

Separators == Whitespace \cup {"-", "/", "."}

RECURSIVE TokenLen(_)
\* length of the leading run of non-separator characters
TokenLen(s) ==
    IF s = <<>> \/ Head(s) \in Separators THEN 0 ELSE 1 + TokenLen(Tail(s))

MapToken(tok) == IF tok \in DOMAIN abbreviation_map THEN abbreviation_map[tok] ELSE tok

RECURSIVE ExpandTokens(_)
\* re.split keeps the separators as tokens; separators are copied unchanged
ExpandTokens(s) ==
    IF s = <<>> THEN <<>>
    ELSE IF Head(s) \in Separators THEN <<Head(s)>> \o ExpandTokens(Tail(s))
    ELSE LET k == TokenLen(s)
         IN  MapToken(SubSeq(s, 1, k)) \o ExpandTokens(SubSeq(s, k + 1, Len(s)))

expand_abbreviations(name) ==
    LET s == clean_text(name)
    IN  IF s = <<>> THEN <<>> ELSE ExpandTokens(UpperSeq(s))

MASOTHUE_BASE == <<"https://masothue.com/">>

build_masothue_link(name, mst) ==
    LET mst_n == normalize_mst(mst)
        slug == slugify_vi(name)
    IN  IF mst_n = <<>> \/ slug = <<>> THEN <<>>
        ELSE MASOTHUE_BASE \o mst_n \o <<"-">> \o slug

(* ------------------------------- state --------------------------------- *)
VARIABLES
    pc,          \* position in process_excel
    nav,         \* "idle", or the operator pause the run is blocked in
    excel,       \* rows of the input sheet (raw cells)
    input_loc,   \* "pending" or "done": directory holding the input sheet
    cols,        \* df.columns, in order
    df,          \* df rows: row index -> (column -> string)
    n,           \* 1-based number of the row being processed
    e1, e2, e3,  \* exceptions caught so far in the current row ("" = none)
    name_api,    \* name returned by api_get_correct_name_for_failed_link
    src,         \* source returned by api_get_correct_name_for_failed_link
    ok, fail, api_called,
    driver,      \* "none", "open", "quit"
    out_full, out_failed, out_links,   \* output sheets
    calls,       \* external calls issued for the current row, in order
    observed,    \* how the calls of the current row ended: <<who, "ok" or exception>>
    still,       \* pauses of the current row that ended with the challenge still shown
    attempt,     \* request_json_with_retry: loop index
    last_exc,    \* request_json_with_retry: last exception caught
    rstate,      \* request_json_with_retry: "running", "returned", "raised"
    raised,      \* exception request_json_with_retry raised to its caller
    requests,    \* number of session.get calls issued
    waits,       \* durations passed to time.sleep, in order, in half seconds
    last_resp,   \* the outcome of the latest session.get
    only429,     \* every outcome so far was a 429 without Retry-After
    registry,    \* batch view: row -> whether some tier resolves the row
    run,         \* batch view: number of the run of process_excel on this input
    crash_n,     \* batch view: rows done when an earlier run was cut short
    ckpt,        \* batch view: the sheets of the last completed periodic checkpoint
    present,     \* columns of the input sheet
    load_error,  \* the exception read_excel raised (NoError = none)
    fn_arg,      \* helper functions: the argument drawn for the call
    fn_res,      \* helper functions: the values returned so far, in order
    pool_pc,     \* tra_cuu_nhieu_mst: position of the calling thread
    raw_list,    \* tra_cuu_nhieu_mst: the mst_list argument
    max_workers, \* tra_cuu_nhieu_mst: the max_workers argument
    mst_list,    \* tra_cuu_nhieu_mst: the stripped, non-blank identifiers
    futures,     \* submitted calls of tra_cuu_1_mst: identifier and state
    worker,      \* pool thread -> index of the future it runs (0 = idle)
    successes, errors,   \* the two result maps
    writes       \* which thread stored which key in which map, in order

pipeVars ==
    <<pc, nav, excel, input_loc, cols, df, n, e1, e2, e3, name_api, src,
      ok, fail, api_called, driver, out_full, out_failed, out_links,
      calls, observed, still>>

retryVars == <<attempt, last_exc, rstate, raised, requests, waits, last_resp, only429>>

batchVars == <<registry, run, crash_n, ckpt>>

loadVars == <<present, load_error>>

fnVars == <<fn_arg, fn_res>>

poolVars ==
    <<pool_pc, raw_list, max_workers, mst_list, futures, worker, successes,
      errors, writes>>

otherVars == <<loadVars, fnVars, poolVars>>

vars == <<pipeVars, retryVars, batchVars, otherVars>>

RowSet == 1..NRows

(* --------------------------- input sheets ------------------------------ *)
COL_STT == "STT"
COL_CIF == "CIF"
COL_CUSTOMER == "CusTomer_Name"
COL_MST == "Ma so thue"

\* raw tax identifiers: a 10-digit one (with stray spaces), and one without
\* any digit, which normalizes to the empty string
RawMsts ==
    { <<" ", "0", "1", "0", "2", "2", "3", "4", "8", "9", "6">>,
      <<"n", "/", "a">> }

\* raw display names: one with an abbreviation and diacritics, and one whose
\* slug is empty
RawNames ==
    { <<"c", "t", " ", "A", "a1">>,
      <<".", ".">> }

RowInputs ==
    { [mst |-> m, name |-> nm] : m \in RawMsts, nm \in RawNames }
    \ { [mst |-> <<"n", "/", "a">>, name |-> <<".", ".">>] }

\* registered names the lookup APIs return: a usual one, padded as in a raw
\* JSON field, and one without any letter or digit, whose slug is empty
ApiNames == { <<" ", "C", "O6", "N", "G", " ", "T", "Y", " ", "A">>, <<"?">> }

Empty == <<>>

NoResp == [kind |-> "none", retry_after |-> "absent", secs |-> 0]

NoFile == [exists |-> FALSE, cols |-> <<>>, rows |-> <<>>]

(* ------------------------- data-frame helpers -------------------------- *)
ColSet(cs) == {cs[i] : i \in 1..Len(cs)}

\* df[k] = "" for a new column k
AddColumn(d, k) == [i \in DOMAIN d |-> (k :> Empty) @@ d[i]]

\* df.at[idx, k] = v for an existing column k
SetCell(d, idx, k, v) == [d EXCEPT ![idx] = (k :> v) @@ @]

\* the keys of kv, in order
Keys(kv) == [i \in 1..Len(kv) |-> kv[i][1]]

\* new columns are put in front of the existing ones
MergeCols_InsertsFirst(cs, kv) ==
    SelectSeq(Keys(kv), LAMBDA k : k \notin ColSet(cs)) \o cs

RECURSIVE MergeCols(_, _)
\* the columns after the guarded column creation "if k not in df.columns" for every key of kv
MergeCols(cs, kv) ==
    IF kv = <<>> THEN cs
    ELSE MergeCols(IF Head(kv)[1] \in ColSet(cs) THEN cs ELSE Append(cs, Head(kv)[1]),
                   Tail(kv))

RECURSIVE MergeKv(_, _, _)
\* the rows after "for k, v in kv.items(): ...; df.at[idx, k] = v"
MergeKv(d, idx, kv) ==
    IF kv = <<>> THEN d
    ELSE LET k == Head(kv)[1]
             v == Head(kv)[2]
             d1 == IF k \in DOMAIN d[idx] THEN d ELSE AddColumn(d, k)
         IN  MergeKv(SetCell(d1, idx, k, v), idx, Tail(kv))

RECURSIVE SetCells(_, _, _)
SetCells(d, idx, kv) ==
    IF kv = <<>> THEN d
    ELSE SetCells(SetCell(d, idx, Head(kv)[1], Head(kv)[2]), idx, Tail(kv))

LinkCols ==
    <<COL_STT, COL_CIF, COL_CUSTOMER, COL_MST, "mst_norm",
      "customer_name_expanded", "link_masothue",
      "api_name", "api_source", "link_masothue_api", "api_error",
      "crawl_status", "crawl_source", "crawl_error">>

\* df[[c for c in cols if c in df.columns]]
Project(cs, d) ==
    LET keep == SelectSeq(LinkCols, LAMBDA c : c \in ColSet(cs))
    IN  [exists |-> TRUE, cols |-> keep,
         rows |-> [i \in DOMAIN d |-> [c \in ColSet(keep) |-> d[i][c]]]]

Sheet(cs, d) == [exists |-> TRUE, cols |-> cs, rows |-> d]

StartsWithOk(s) == Len(s) >= 1 /\ s[1] = "ok_"

\* the failed-only sheet keeps every row
FilterRows_KeepsAll(d, i) == d

\* the rows i.. of d (a sequence) that are not successes, in order
FilterRows(d, i) ==
    SelectSeq(SubSeq(d, i, Len(d)), LAMBDA r : ~StartsWithOk(r["crawl_status"]))

(* --------------------------- process_excel ----------------------------- *)
NoCkpt == [full |-> NoFile, links |-> NoFile]

BatchIdle == registry = <<>> /\ run = 0 /\ crash_n = 0 /\ ckpt = NoCkpt

\* read_excel requires these columns, in this order (line 453)
RequiredCols == <<COL_STT, COL_CIF, COL_CUSTOMER, COL_MST>>

RequiredSet == {RequiredCols[i] : i \in DOMAIN RequiredCols}

NoError == [type |-> "", names |-> {}, columns |-> {}]

LoadIdle == present = RequiredSet /\ load_error = NoError

FnIdle == fn_arg = <<>> /\ fn_res = <<>>

PoolIdle ==
    /\ pool_pc = "idle" /\ raw_list = <<>> /\ max_workers = 0
    /\ mst_list = <<>> /\ futures = <<>> /\ worker = <<>>
    /\ successes = <<>> /\ errors = <<>> /\ writes = <<>>

\* the sheets process_excel is started on: every required column there, or
\* some of them missing
Presents == SUBSET RequiredSet

RetryIdle ==
    /\ attempt = 0 /\ last_exc = "" /\ rstate = "idle" /\ raised = ""
    /\ requests = 0 /\ waits = <<>> /\ last_resp = NoResp /\ only429 = TRUE

Init ==
    /\ pc = "read"
    /\ nav = "idle"
    /\ excel \in [RowSet -> RowInputs]
    /\ input_loc = "pending"
    /\ cols = <<>>
    /\ df = <<>>
    /\ n = 0
    /\ e1 = "" /\ e2 = "" /\ e3 = ""
    /\ name_api = Empty /\ src = Empty
    /\ ok = 0 /\ fail = 0 /\ api_called = 0
    /\ driver = "none"
    /\ out_full = NoFile /\ out_failed = NoFile /\ out_links = NoFile
    /\ calls = <<>>
    /\ observed = <<>>
    /\ still = {}
    /\ present \in Presents
    /\ load_error = NoError
    /\ FnIdle
    /\ PoolIdle
    /\ RetryIdle
    /\ BatchIdle

\* read_excel and the derived columns of process_excel (lines 471-492)
ReadRow(i) ==
    LET mst == normalize_mst(excel[i].mst)
        mst_norm == normalize_mst(mst)
        expanded == expand_abbreviations(excel[i].name)
        slug == slugify_vi(expanded)
    IN  (COL_STT :> <<ToString(i)>>) @@ (COL_CIF :> <<"cif">>)
        @@ (COL_CUSTOMER :> excel[i].name) @@ (COL_MST :> mst)
        @@ ("mst_norm" :> mst_norm)
        @@ ("customer_name_expanded" :> expanded)
        @@ ("customer_slug" :> slug)
        @@ ("link_masothue" :>
               IF mst_norm # <<>> /\ slug # <<>>
               THEN MASOTHUE_BASE \o mst_norm \o <<"-">> \o slug ELSE Empty)
        @@ ("api_name" :> Empty) @@ ("api_source" :> Empty)
        @@ ("api_error" :> Empty) @@ ("link_masothue_api" :> Empty)
        @@ ("crawl_status" :> Empty) @@ ("crawl_source" :> Empty)
        @@ ("crawl_error" :> Empty)

InitialCols ==
    <<COL_STT, COL_CIF, COL_CUSTOMER, COL_MST, "mst_norm",
      "customer_name_expanded", "customer_slug", "link_masothue",
      "api_name", "api_source", "api_error", "link_masothue_api",
      "crawl_status", "crawl_source", "crawl_error">>

\* the first required column the sheet lacks, in the order of the loop of
\* read_excel (lines 453-455)
FirstMissing(cs) ==
    LET i == CHOOSE i \in DOMAIN RequiredCols :
                 /\ RequiredCols[i] \notin cs
                 /\ \A j \in 1..(i - 1) : RequiredCols[j] \in cs
    IN  {RequiredCols[i]}

\* read_excel (lines 451-458) as called at line 471: the ValueError of line
\* 455 is not caught by process_excel nor by main
ReadExcel ==
    /\ pc = "read"
    /\ IF RequiredSet \subseteq present
       THEN /\ cols' = InitialCols
            /\ df' = [i \in RowSet |-> ReadRow(i)]
            /\ pc' = "make_driver"
            /\ UNCHANGED load_error
       ELSE /\ load_error' = [type |-> "ValueError",
                              names |-> FirstMissing(present),
                              columns |-> present]
            /\ pc' = "aborted"
            /\ UNCHANGED <<cols, df>>
    /\ UNCHANGED <<nav, excel, input_loc, n, e1, e2, e3, name_api, src, ok, fail,
                   api_called, driver, out_full, out_failed, out_links, calls,
                   observed, still, retryVars, batchVars, present, fnVars,
                   poolVars>>

MakeDriver ==
    /\ pc = "make_driver"
    /\ driver' = "open"
    /\ pc' = "warmup"
    /\ UNCHANGED <<nav, excel, input_loc, cols, df, n, e1, e2, e3, name_api, src,
                   ok, fail, api_called, out_full, out_failed, out_links, calls,
                   observed, still, retryVars, batchVars, otherVars>>

(* ----------------------- external collaborators ------------------------ *)
WARMUP_URL == MASOTHUE_BASE
MASOTHUE_HOME == MASOTHUE_BASE
TVPL_SEARCH_TMPL == <<"https://thuvienphapluat.vn/ma-so-thue/tra-cuu?tukhoa=">>

\* what driver.get and the wait for <body> can do: the driver rejects an
\* empty URL; any other page loads, possibly as a challenge page
SafeGetOutcomes(url) ==
    IF url = <<>> THEN {"raise"} ELSE {"challenge", "loaded"}

\* key/value record scraped from a masothue detail page shown at url
MasothueKv(url) == << <<"masothue_url", url>>, <<"mst_t1_Ten", <<"v">>>> >>

\* key/value record scraped from a tvpl detail page
TvplKv(mst) ==
    << <<"tvpl_detail_url", <<"https://thuvienphapluat.vn/ma-so-thue/">> \o mst>>,
       <<"tvpl_Ten", <<"v">>>> >>

\* response of request_json_with_retry as seen by its caller: an exception,
\* or a JSON body reduced to its code field and its nested name field
ApiResponses ==
    { [raised |-> "RequestException", code |-> "", name |-> Empty] }
    \cup { [raised |-> "", code |-> c, name |-> nm] :
              c \in {"00", "01"}, nm \in ApiNames \cup {Empty} }

\* an external call: the tier issuing it, the function called, its argument,
\* and for a name lookup how it ended and the name it returned
\* what a lookup API can answer for an identifier: nothing is registered
\* under the empty identifier
ApiResponsesFor(mst) ==
    IF mst = <<>> THEN {r \in ApiResponses : r.name = Empty} ELSE ApiResponses

CallRec(tier, op, arg, res, err, val) ==
    [tier |-> tier, op |-> op, arg |-> arg, res |-> res, err |-> err, val |-> val]

(* ------------------------- the fallback chain -------------------------- *)
CurMst == StripSet(df[n]["mst_norm"], Whitespace)

\* the source tag loses the name of the API
ApiLinkSource_NoSource(s) == <<"api_masothue_link(">> \o <<")">>

\* line 540: f"api_masothue_link({src})"
ApiLinkSource(s) == <<"api_masothue_link(">> \o s \o <<")">>

\* a successful direct link does not end the row
RowOk_FallThrough(tier, status, source, kv) ==
    /\ df' = MergeKv(SetCells(df, n, << <<"crawl_status", status>>,
                                        <<"crawl_source", source>> >>), n, kv)
    /\ cols' = MergeCols(cols, kv)
    /\ ok' = ok + 1
    /\ pc' = IF tier = "direct" THEN "api" ELSE "pace"
    /\ nav' = "idle"
    /\ observed' = Append(observed, <<tier, "ok">>)
    /\ UNCHANGED <<e1, e2, e3, fail>>

\* lines 522-528, 539-545, 550-556, 560-566 (and their copies 576-592)
RowOk(tier, status, source, kv) ==
    /\ df' = MergeKv(SetCells(df, n, << <<"crawl_status", status>>,
                                        <<"crawl_source", source>> >>), n, kv)
    /\ cols' = MergeCols(cols, kv)
    /\ ok' = ok + 1
    /\ pc' = "pace"
    /\ nav' = "idle"
    /\ observed' = Append(observed, <<tier, "ok">>)
    /\ UNCHANGED <<e1, e2, e3, fail>>

\* no trail is written
CrawlError_Empty(x1, x2, x3, x4) == Empty

\* lines 570 and 596: the error trail written when the last tier fails
CrawlError(x1, x2, x3, x4) ==
    IF name_api # <<>>
    THEN <<"e1=", x1, " | ", "e2=", x2, " | ", "e3=", x3, " | ", "e4=", x4>>
    ELSE <<"e1=", x1, " | ", "e3=", x3, " | ", "e4=", x4>>

\* the exception of the last tier leaves the row loop
RowFailed_Reraise(e4) ==
    /\ pc' = "aborted"
    /\ nav' = "idle"
    /\ observed' = Append(observed, <<"secondary", e4>>)
    /\ UNCHANGED <<df, fail, cols, e1, e2, e3, ok>>

\* lines 568-571 and 594-597
RowFailed(e4) ==
    /\ df' = SetCells(df, n, << <<"crawl_status", <<"error">>>>,
                               <<"crawl_source", <<"failed_all">>>>,
                               <<"crawl_error", CrawlError(e1, e2, e3, e4)>> >>)
    /\ fail' = fail + 1
    /\ pc' = "pace"
    /\ nav' = "idle"
    /\ observed' = Append(observed, <<"secondary", e4>>)
    /\ UNCHANGED <<cols, e1, e2, e3, ok>>

\* a failed search falls back to the link fetch again
NextTier_RetryLink(tier) ==
    CASE tier = "direct" -> "api"
      [] tier = "relink" -> "primary"
      [] tier = "primary" -> IF name_api # <<>> THEN "relink" ELSE "secondary"

\* the nesting of the try blocks: what runs in the except clause of a tier
\* (line 530 after 521, line 549 after 538, lines 559/585 after 549/575)
NextTier(tier) ==
    CASE tier = "direct" -> "api"
      [] tier = "relink" -> "primary"
      [] tier = "primary" -> "secondary"

\* an exception leaves the call of the given tier: the except clause that
\* catches it (lines 529, 546, 557/583, 567/593); at warm-up nothing does
Raise(tier, err) ==
    CASE tier = "warmup" ->
           /\ pc' = "aborted"
           /\ nav' = "idle"
           /\ UNCHANGED <<cols, df, e1, e2, e3, ok, fail, observed>>
      [] tier = "direct" ->
           /\ e1' = err
           /\ pc' = NextTier(tier)
           /\ nav' = "idle"
           /\ observed' = Append(observed, <<"direct", err>>)
           /\ UNCHANGED <<cols, df, e2, e3, ok, fail>>
      [] tier = "relink" ->
           /\ e2' = err
           /\ pc' = NextTier(tier)
           /\ nav' = "idle"
           /\ observed' = Append(observed, <<"relink", err>>)
           /\ UNCHANGED <<cols, df, e1, e3, ok, fail>>
      [] tier = "primary" ->
           /\ e3' = err
           /\ pc' = NextTier(tier)
           /\ nav' = "idle"
           /\ observed' = Append(observed, <<"primary", err>>)
           /\ UNCHANGED <<cols, df, e1, e2, ok, fail>>
      [] tier = "secondary" -> RowFailed(err)

\* masothue_fetch_from_current_page, and what its caller does with the result;
\* the failure modelled is the wait for the tables timing out (line 344)
FetchMasothue(tier, status, source, url) ==
    \E f \in {"ok", "TimeoutException"} :
        IF f = "ok" THEN RowOk(tier, status, source, MasothueKv(url)) ELSE Raise(tier, f)

\* masothue_search_by_mst after the search was submitted and the operator
\* pause, if any, is over (line 390)
AfterSearch ==
    FetchMasothue("primary", <<"ok_", "masothue_search">>, <<"fallback_search">>,
                  MASOTHUE_BASE \o CurMst \o <<"-found">>)

\* the code that follows a safe_get that returned normally
AfterGet(tier) ==
    CASE tier = "warmup" ->
           \* line 503: the unconditional warm-up pause
           /\ nav' = "pause_warmup"
           /\ UNCHANGED <<pc, cols, df, e1, e2, e3, ok, fail, observed>>
      [] tier = "direct" ->
           FetchMasothue(tier, <<"ok_", "masothue_link">>, <<"customer_masothue_link">>,
                         df[n]["link_masothue"])
      [] tier = "relink" ->
           FetchMasothue(tier, <<"ok_", "masothue_link">>, ApiLinkSource(src),
                         df[n]["link_masothue_api"])
      [] tier = "primary" ->
           \* lines 377-388: search box, submit, challenge check
           (\E o \in {"raise", "challenge", "clear"} :
               CASE o = "raise" -> Raise(tier, "TimeoutException")
                 [] o = "challenge" ->
                      /\ nav' = "pause_search"
                      /\ UNCHANGED <<pc, cols, df, e1, e2, e3, ok, fail, observed>>
                 [] o = "clear" -> AfterSearch)
      [] tier = "secondary" ->
           \* lines 427-437: result table, best row, detail page
           \E o \in {"TimeoutException", "tvpl_no_rows", "ok"} :
               IF o = "ok"
               THEN RowOk(tier, <<"ok_", "tvpl_search">>, <<"fallback_search">>, TvplKv(CurMst))
               ELSE Raise(tier, o)

\* safe_get up to the point where it returns, raises or blocks in the pause
SafeGet(tier, url) ==
    \E o \in SafeGetOutcomes(url) :
        CASE o = "raise" -> Raise(tier, "InvalidArgumentException")
          [] o = "challenge" ->
               /\ nav' = "pause_get"
               /\ UNCHANGED <<pc, cols, df, e1, e2, e3, ok, fail, observed>>
          [] o = "loaded" -> AfterGet(tier)

\* variables no tier call touches
tierFrame ==
    <<excel, input_loc, n, name_api, src, api_called, driver,
      out_full, out_failed, out_links, retryVars, batchVars, otherVars>>

\* a call does not wait for the pause to end
AtCall_IgnoresPause(t) == pc = t

\* a call is issued by the one thread of the program when control is at it:
\* input() (line 307) has returned from every pause entered before
AtCall(t) == pc = t /\ nav = "idle"

\* line 502: safe_get(driver, WARMUP_URL), outside any try block
Warmup ==
    /\ AtCall("warmup")
    /\ SafeGet("warmup", WARMUP_URL)
    /\ UNCHANGED <<calls, still, tierFrame>>

\* input() returns inside safe_get (lines 316-319): the page is looked at again
ContinueGet ==
    /\ nav = "pause_get"
    /\ \E shown \in BOOLEAN :
          IF shown
          THEN /\ still' = still \cup {<<pc, "safe_get">>}
               /\ Raise(pc, "cloudflare_still_present_after_manual")
          ELSE /\ UNCHANGED still
               /\ AfterGet(pc)
    /\ UNCHANGED <<calls, tierFrame>>

\* input() returns inside masothue_search_by_mst (line 386); whatever the
\* page shows then, line 390 goes on to read the tables
ContinueSearch ==
    /\ nav = "pause_search"
    /\ \E shown \in BOOLEAN :
          still' = IF shown THEN still \cup {<<pc, "after_search">>} ELSE still
    /\ AfterSearch
    /\ UNCHANGED <<calls, tierFrame>>

\* input() returns from the warm-up pause (line 503); the row loop starts
ContinueWarmup ==
    /\ nav = "pause_warmup"
    /\ nav' = "idle"
    /\ pc' = IF NRows >= 1 THEN "direct" ELSE "quit"
    /\ n' = IF NRows >= 1 THEN 1 ELSE n
    /\ UNCHANGED <<excel, input_loc, cols, df, e1, e2, e3, name_api, src, ok, fail,
                   api_called, driver, out_full, out_failed, out_links, calls,
                   observed, still, retryVars, batchVars, otherVars>>

\* line 521: masothue_open_link(driver, link_mst)
DirectLink ==
    /\ AtCall("direct")
    /\ LET link_mst == StripSet(df[n]["link_masothue"], Whitespace)
       IN  /\ calls' = Append(calls, CallRec("direct", "masothue_open_link", link_mst, "invoked", "", Empty))
           /\ SafeGet("direct", link_mst)
    /\ UNCHANGED <<still, tierFrame>>

api_vitax_get_name(r) == StripSet(r.name, Whitespace)

api_vietqr_get_name(r) ==
    IF r.code # "00" THEN Empty ELSE StripSet(r.name, Whitespace)

ApiCall(op, mst, r, name) ==
    CallRec("api", op, mst,
            IF r.raised # "" THEN "raise" ELSE IF name = <<>> THEN "empty" ELSE "name",
            r.raised, name)

\* the two APIs are asked in the opposite order
api_get_correct_name_for_failed_link_Swapped(mst, rv, rq) ==
    LET nv == IF rv.raised # "" THEN Empty ELSE api_vitax_get_name(rv)
        nq == IF rq.raised # "" THEN Empty ELSE api_vietqr_get_name(rq)
        cv == ApiCall("api_vitax_get_name", mst, rv, nv)
        cq == ApiCall("api_vietqr_get_name", mst, rq, nq)
    IN  IF nq # <<>> THEN [name |-> nq, src |-> <<"vietqr">>, made |-> <<cq>>]
        ELSE IF nv # <<>> THEN [name |-> nv, src |-> <<"vitax">>, made |-> <<cq, cv>>]
        ELSE [name |-> Empty, src |-> Empty, made |-> <<cq, cv>>]

\* the text of a caught exception is taken for the name
api_get_correct_name_for_failed_link_ErrorAsName(mst, rv, rq) ==
    LET nv == IF rv.raised # "" THEN <<rv.raised>> ELSE api_vitax_get_name(rv)
        nq == IF rq.raised # "" THEN <<rq.raised>> ELSE api_vietqr_get_name(rq)
        cv == ApiCall("api_vitax_get_name", mst, rv, nv)
        cq == ApiCall("api_vietqr_get_name", mst, rq, nq)
    IN  IF nv # <<>> THEN [name |-> nv, src |-> <<"vitax">>, made |-> <<cv>>]
        ELSE IF nq # <<>> THEN [name |-> nq, src |-> <<"vietqr">>, made |-> <<cv, cq>>]
        ELSE [name |-> Empty, src |-> Empty, made |-> <<cv, cq>>]

\* api_get_correct_name_for_failed_link, given what the two APIs answer when
\* asked: the name, its source, and the API calls actually made
api_get_correct_name_for_failed_link(mst, rv, rq) ==
    LET nv == IF rv.raised # "" THEN Empty ELSE api_vitax_get_name(rv)
        nq == IF rq.raised # "" THEN Empty ELSE api_vietqr_get_name(rq)
        cv == ApiCall("api_vitax_get_name", mst, rv, nv)
        cq == ApiCall("api_vietqr_get_name", mst, rq, nq)
    IN  IF nv # <<>> THEN [name |-> nv, src |-> <<"vitax">>, made |-> <<cv>>]
        ELSE IF nq # <<>> THEN [name |-> nq, src |-> <<"vietqr">>, made |-> <<cv, cq>>]
        ELSE [name |-> Empty, src |-> Empty, made |-> <<cv, cq>>]

RECURSIVE Swallowed(_)
\* how the API calls ended; lines 264 and 270 drop the exceptions
Swallowed(made) ==
    IF made = <<>> THEN <<>>
    ELSE << <<Head(made).op, IF Head(made).res = "raise" THEN Head(made).err ELSE "ok">> >>
         \o Swallowed(Tail(made))

\* lines 530-536 and 573: the name lookup after a failed direct link
NameRecovery ==
    /\ AtCall("api")
    /\ api_called' = api_called + 1
    /\ \E rv \in ApiResponsesFor(CurMst), rq \in ApiResponsesFor(CurMst) :
          LET got == api_get_correct_name_for_failed_link(CurMst, rv, rq)
              d1 == SetCells(df, n, << <<"api_name", got.name>>,
                                       <<"api_source", got.src>> >>)
          IN  /\ name_api' = got.name
              /\ src' = got.src
              /\ calls' = calls \o got.made
              /\ observed' = observed \o Swallowed(got.made)
              /\ IF got.name # <<>>
                 THEN /\ df' = SetCell(d1, n, "link_masothue_api",
                                       build_masothue_link(got.name, CurMst))
                      /\ pc' = "relink"
                 ELSE /\ df' = SetCell(d1, n, "api_error",
                                       <<"api_no_name_after_link_fail ", "e1=", e1>>)
                      /\ pc' = "primary"
    /\ UNCHANGED <<nav, excel, input_loc, cols, n, e1, e2, e3, ok, fail, driver,
                   out_full, out_failed, out_links, still, retryVars, batchVars, otherVars>>

\* line 538: masothue_open_link(driver, df.at[idx, "link_masothue_api"])
Relink ==
    /\ AtCall("relink")
    /\ LET url == df[n]["link_masothue_api"]
       IN  /\ calls' = Append(calls, CallRec("relink", "masothue_open_link", url, "invoked", "", Empty))
           /\ SafeGet("relink", url)
    /\ UNCHANGED <<still, tierFrame>>

\* lines 549 and 575: masothue_search_by_mst(driver, mst)
PrimarySearch ==
    /\ AtCall("primary")
    /\ calls' = Append(calls, CallRec("primary", "masothue_search_by_mst", CurMst,
                                "invoked", "", Empty))
    /\ SafeGet("primary", MASOTHUE_HOME)
    /\ UNCHANGED <<still, tierFrame>>

\* lines 559 and 585: tvpl_search_by_mst(driver, mst)
SecondarySearch ==
    /\ AtCall("secondary")
    /\ calls' = Append(calls, CallRec("secondary", "tvpl_search_by_mst", CurMst,
                                "invoked", "", Empty))
    /\ SafeGet("secondary", TVPL_SEARCH_TMPL \o normalize_mst(CurMst))
    /\ UNCHANGED <<still, tierFrame>>

\* lines 599-615: pacing sleep, long break, periodic checkpoint, next row.
\* The names bound by the except clauses and the results of the name lookup
\* are dead once the row is over; they are reset here.
Pace ==
    /\ pc = "pace"
    /\ IF n % CHECKPOINT_EVERY = 0
       THEN /\ out_full' = Sheet(cols, df)
            /\ out_links' = Project(cols, df)
       ELSE UNCHANGED <<out_full, out_links>>
    /\ IF n < NRows
       THEN /\ n' = n + 1
            /\ pc' = "direct"
            /\ calls' = <<>>
            /\ observed' = <<>>
            /\ e1' = "" /\ e2' = "" /\ e3' = ""
            /\ name_api' = Empty /\ src' = Empty
            /\ still' = {}
       ELSE /\ pc' = "quit"
            /\ UNCHANGED <<n, calls, observed, e1, e2, e3, name_api, src, still>>
    /\ UNCHANGED <<nav, excel, input_loc, cols, df, ok, fail, api_called, driver,
                   out_failed, retryVars, batchVars, otherVars>>

\* lines 617-621: the finally clause of the row loop
QuitDriver ==
    /\ pc = "quit"
    /\ driver' = "quit"
    /\ pc' = "final"
    /\ UNCHANGED <<nav, excel, input_loc, cols, df, n, e1, e2, e3, name_api, src,
                   ok, fail, api_called, out_full, out_failed, out_links, calls,
                   observed, still, retryVars, batchVars, otherVars>>

\* lines 623-633: the three output sheets
WriteOutputs ==
    /\ pc = "final"
    /\ out_full' = Sheet(cols, df)
    /\ out_failed' = Sheet(cols, FilterRows(df, 1))
    /\ out_links' = Project(cols, df)
    /\ pc' = "move"
    /\ UNCHANGED <<nav, excel, input_loc, cols, df, n, e1, e2, e3, name_api, src,
                   ok, fail, api_called, driver, calls, observed, still, retryVars, batchVars, otherVars>>

\* lines 639-640: the input sheet is moved to the processed directory
MoveInput ==
    /\ pc = "move"
    /\ input_loc' = "done"
    /\ pc' = "done"
    /\ UNCHANGED <<nav, excel, cols, df, n, e1, e2, e3, name_api, src, ok, fail,
                   api_called, driver, out_full, out_failed, out_links, calls,
                   observed, still, retryVars, batchVars, otherVars>>

Next ==
    \/ ReadExcel \/ MakeDriver \/ Warmup
    \/ ContinueGet \/ ContinueSearch \/ ContinueWarmup
    \/ DirectLink \/ NameRecovery \/ Relink \/ PrimarySearch \/ SecondarySearch
    \/ Pace \/ QuitDriver \/ WriteOutputs \/ MoveInput

Spec == Init /\ [][Next]_vars

(* ------------------- process_excel and the file system ----------------- *)
\* A second view of process_excel, over sheets long enough for the periodic
\* checkpoint and the long break to occur.  It keeps the batch loop, the
\* writes of the output sheets, the move of the input, and what the file
\* system holds when the process ends early and is started again.  The
\* fallback chain of a row is summarised by the terminal status it leaves.
BatchRowSet == 1..BatchRows

\* what the registries hold: every k-th row is unknown to all of them
Registries ==
    { [i \in BatchRowSet |-> IF i % k = 0 THEN "unknown" ELSE "found"] :
         k \in {1, 2, CHECKPOINT_EVERY + 1, BatchRows + 1} }

\* the columns of df the output sheets are judged by
BatchCols == <<COL_STT, "crawl_status", "crawl_source", "crawl_error">>

BatchReadRow(i) ==
    (COL_STT :> <<ToString(i)>>) @@ ("crawl_status" :> Empty)
    @@ ("crawl_source" :> Empty) @@ ("crawl_error" :> Empty)

\* lines 520-597 for row i of d: the status the chain leaves in the row
RowResult(d, i, answer) ==
    IF answer = "found"
    THEN SetCells(d, i, << <<"crawl_status", <<"ok_", "masothue_link">>>>,
                          <<"crawl_source", <<"customer_masothue_link">>>> >>)
    ELSE SetCells(d, i, << <<"crawl_status", <<"error">>>>,
                          <<"crawl_source", <<"failed_all">>>>,
                          <<"crawl_error", <<"e1=", "TimeoutException", " | ",
                                             "e3=", "TimeoutException", " | ",
                                             "e4=", "tvpl_no_rows">>>> >>)

\* a file that was opened for writing and not completed: not a workbook
Torn == [exists |-> TRUE, cols |-> <<>>, rows |-> <<>>]

\* a run started again goes on behind the rows of the last checkpoint
FirstRow_AfterCheckpoint == crash_n + 1

\* line 515: enumerate(df.index, 1) starts every run at the first row
FirstRow == 1

\* df.to_excel(path): the file at path is replaced by the new sheet
to_excel(old, new) == new

\* the periodic checkpoint is taken every second time only
CheckpointDue_EveryOther(k) == k % (2 * CHECKPOINT_EVERY) = 0

\* line 607: if n % 30 == 0
CheckpointDue(k) == k % CHECKPOINT_EVERY = 0

\* the write_excel calls of process_excel in program order: where control is
\* before the call and inside it, the file written, where control goes next
Writes ==
    { [at |-> "ckpt_full", open |-> "ckpt_full_open", file |-> "full",
       next |-> "ckpt_links"],
      [at |-> "ckpt_links", open |-> "ckpt_links_open", file |-> "links",
       next |-> "next_row"],
      [at |-> "final", open |-> "final_open", file |-> "full",
       next |-> "final_failed"],
      [at |-> "final_failed", open |-> "final_failed_open", file |-> "failed",
       next |-> "final_links"],
      [at |-> "final_links", open |-> "final_links_open", file |-> "links",
       next |-> "move"] }

\* the input is moved as soon as the full sheet is written
WriteNext_MovesEarly(w) == IF w.at = "final" THEN "move" ELSE w.next

WriteNext(w) == w.next

Periodic(w) == w.at \in {"ckpt_full", "ckpt_links"}

FileOf(f) ==
    CASE f = "full" -> out_full [] f = "failed" -> out_failed [] f = "links" -> out_links

\* the sheet a write_excel call is given (lines 608, 615, 623, 625, 633)
Content(f) ==
    CASE f = "full" -> Sheet(cols, df)
      [] f = "failed" -> Sheet(cols, FilterRows(df, 1))
      [] f = "links" -> Project(cols, df)

SetFile(f, v) ==
    /\ out_full' = IF f = "full" THEN v ELSE out_full
    /\ out_failed' = IF f = "failed" THEN v ELSE out_failed
    /\ out_links' = IF f = "links" THEN v ELSE out_links

\* variables the batch view leaves at rest
batchFrame ==
    <<nav, excel, e1, e2, e3, name_api, src, api_called, calls, observed, still,
      retryVars, otherVars>>

InitBatch ==
    /\ pc = "read" /\ nav = "idle" /\ excel = <<>> /\ input_loc = "pending"
    /\ cols = <<>> /\ df = <<>> /\ n = 0
    /\ e1 = "" /\ e2 = "" /\ e3 = ""
    /\ name_api = Empty /\ src = Empty
    /\ ok = 0 /\ fail = 0 /\ api_called = 0
    /\ driver = "none"
    /\ out_full = NoFile /\ out_failed = NoFile /\ out_links = NoFile
    /\ calls = <<>> /\ observed = <<>> /\ still = {}
    /\ RetryIdle
    /\ LoadIdle /\ FnIdle /\ PoolIdle
    /\ registry \in Registries
    /\ run = 1 /\ crash_n = 0 /\ ckpt = NoCkpt

\* number of rows of d that carry a status
Resolved(d) == Cardinality({i \in DOMAIN d : d[i]["crawl_status"] # <<>>})

\* rows with a status in the last completed periodic full checkpoint
CkptRows == IF ckpt.full.exists THEN Resolved(ckpt.full.rows) ELSE 0

\* the run ends early, by an exception leaving process_excel ("aborted") or
\* by the process being terminated ("crashed")
CutShort(how) ==
    /\ pc' = how
    /\ crash_n' = CkptRows

\* lines 471-503, summarised: the sheet is read, the columns are added, the
\* driver is made, and the warm-up navigation loads or raises
BatchRead ==
    /\ pc = "read"
    /\ cols' = BatchCols
    /\ df' = [i \in BatchRowSet |-> BatchReadRow(i)]
    /\ driver' = "open"
    /\ \E w \in {"loaded", "raise"} :
          IF w = "loaded"
          THEN /\ n' = FirstRow /\ pc' = "row"
               /\ UNCHANGED crash_n
          ELSE /\ CutShort("aborted")
               /\ UNCHANGED n
    /\ UNCHANGED <<input_loc, ok, fail, out_full, out_failed, out_links,
                   registry, run, ckpt, batchFrame>>

\* lines 516-599: the chain of row n, by what the registries hold for it
BatchRow ==
    /\ pc = "row"
    /\ df' = RowResult(df, n, registry[n])
    /\ IF registry[n] = "found"
       THEN ok' = ok + 1 /\ UNCHANGED fail
       ELSE fail' = fail + 1 /\ UNCHANGED ok
    /\ pc' = "sleep"
    /\ UNCHANGED <<input_loc, cols, n, driver, out_full, out_failed, out_links,
                   batchVars, batchFrame>>

\* lines 607-615 follow the sleeps
AfterBreak == IF CheckpointDue(n) THEN "ckpt_full" ELSE "next_row"

\* line 601: sleep_between(SCRAPE_MIN_SLEEP, SCRAPE_MAX_SLEEP)
BatchSleep ==
    /\ pc = "sleep"
    /\ pc' = IF n % LONG_BREAK_EVERY = 0 THEN "long_break" ELSE AfterBreak
    /\ UNCHANGED <<input_loc, cols, df, n, ok, fail, driver, out_full, out_failed,
                   out_links, batchVars, batchFrame>>

\* lines 602-605: the long break
BatchLongBreak ==
    /\ pc = "long_break"
    /\ pc' = AfterBreak
    /\ UNCHANGED <<input_loc, cols, df, n, ok, fail, driver, out_full, out_failed,
                   out_links, batchVars, batchFrame>>

\* line 515: the for loop takes the next row or ends
BatchNextRow ==
    /\ pc = "next_row"
    /\ IF n < BatchRows
       THEN n' = n + 1 /\ pc' = "row"
       ELSE pc' = "quit" /\ UNCHANGED n
    /\ UNCHANGED <<input_loc, cols, df, ok, fail, driver, out_full, out_failed,
                   out_links, batchVars, batchFrame>>

\* write_excel, first half: to_excel opens the path for writing, which
\* empties the file, or the open is refused and the exception leaves
\* process_excel (through the finally clause when inside the row loop)
WriteOpen ==
    /\ \E w \in Writes :
          /\ pc = w.at
          /\ \E o \in {"opened", "refused"} :
                IF o = "opened"
                THEN /\ SetFile(w.file, Torn)
                     /\ pc' = w.open
                     /\ UNCHANGED <<driver, crash_n>>
                ELSE /\ CutShort("aborted")
                     /\ driver' = "quit"
                     /\ UNCHANGED <<out_full, out_failed, out_links>>
    /\ UNCHANGED <<input_loc, cols, df, n, ok, fail, registry, run, ckpt,
                   batchFrame>>

\* write_excel, second half: the workbook is saved and the file closed, or
\* the save fails and the exception leaves process_excel
WriteClose ==
    /\ \E w \in Writes :
          /\ pc = w.open
          /\ \E o \in {"saved", "io_error"} :
                IF o = "saved"
                THEN LET sheet == to_excel(FileOf(w.file), Content(w.file))
                     IN  /\ SetFile(w.file, sheet)
                         /\ ckpt' = IF Periodic(w)
                                    THEN [ckpt EXCEPT ![w.file] = sheet] ELSE ckpt
                         /\ pc' = WriteNext(w)
                         /\ UNCHANGED <<driver, crash_n>>
                ELSE /\ CutShort("aborted")
                     /\ driver' = "quit"
                     /\ UNCHANGED <<out_full, out_failed, out_links, ckpt>>
    /\ UNCHANGED <<input_loc, cols, df, n, ok, fail, registry, run, batchFrame>>

\* the process is terminated from outside, at any point of the run
Crash ==
    /\ pc \notin {"done", "crashed", "aborted"}
    /\ CutShort("crashed")
    /\ UNCHANGED <<input_loc, cols, df, n, ok, fail, driver, out_full, out_failed,
                   out_links, registry, run, ckpt, batchFrame>>

\* main (lines 644-651) is started again: the input is still in the pending
\* directory and process_excel runs on it from the beginning
Rerun ==
    /\ pc \in {"crashed", "aborted"}
    /\ run < MaxRuns
    /\ input_loc = "pending"
    /\ run' = run + 1
    /\ pc' = "read"
    /\ cols' = <<>> /\ df' = <<>> /\ n' = 0
    /\ ok' = 0 /\ fail' = 0
    /\ driver' = "none"
    /\ UNCHANGED <<input_loc, out_full, out_failed, out_links, registry, crash_n,
                   ckpt, batchFrame>>

NextBatch ==
    \/ BatchRead \/ BatchRow \/ BatchSleep \/ BatchLongBreak \/ BatchNextRow
    \/ WriteOpen \/ WriteClose \/ QuitDriver \/ MoveInput
    \/ Crash \/ Rerun

SpecBatch == InitBatch /\ [][NextBatch]_vars

(* ---------------------- request_json_with_retry ------------------------ *)
\* Durations are counted in half seconds, so that random.uniform(0, 1.5) is
\* sampled at 0, 0.5, 1.0 and 1.5 seconds.
HalfSeconds(s) == 2 * s

Jitters == 0..3

Min(a, b) == IF a <= b THEN a ELSE b

RECURSIVE Pow(_, _)
Pow(b, e) == IF e = 0 THEN 1 ELSE b * Pow(b, e - 1)

\* min(API_BACKOFF_CAP, (API_BACKOFF_BASE ** attempt) + random.uniform(0, 1.5))
Backoff(k, jitter) ==
    Min(HalfSeconds(API_BACKOFF_CAP), HalfSeconds(Pow(API_BACKOFF_BASE, k)) + jitter)

\* Retry-After headers a 429 can carry: none, a number of seconds (here 1 s
\* or 100 s), or text float() rejects (an HTTP date)
RetryAfters ==
    { [retry_after |-> "absent", secs |-> 0],
      [retry_after |-> "number", secs |-> 1],
      [retry_after |-> "number", secs |-> 100],
      [retry_after |-> "date", secs |-> 0] }

Resp(kind, ra) == [kind |-> kind, retry_after |-> ra.retry_after, secs |-> ra.secs]

\* the server's delay is limited by the cap
Wait429_Capped(k, ra, jitter) ==
    IF ra.retry_after = "number"
    THEN Min(HalfSeconds(API_BACKOFF_CAP), HalfSeconds(ra.secs))
    ELSE Backoff(k, jitter)

\* lines 200-208: the wait chosen for a 429
Wait429(k, ra, jitter) ==
    IF ra.retry_after = "number" THEN HalfSeconds(ra.secs) ELSE Backoff(k, jitter)

PipeIdle ==
    /\ pc = "request" /\ nav = "idle" /\ excel = <<>> /\ input_loc = "pending"
    /\ cols = <<>> /\ df = <<>> /\ n = 0
    /\ e1 = "" /\ e2 = "" /\ e3 = ""
    /\ name_api = Empty /\ src = Empty
    /\ ok = 0 /\ fail = 0 /\ api_called = 0
    /\ driver = "none"
    /\ out_full = NoFile /\ out_failed = NoFile /\ out_links = NoFile
    /\ calls = <<>> /\ observed = <<>> /\ still = {}

\* the state on entry to request_json_with_retry (line 195)
InitRetry ==
    /\ PipeIdle
    /\ BatchIdle
    /\ LoadIdle /\ FnIdle /\ PoolIdle
    /\ attempt = 0 /\ last_exc = "" /\ rstate = "running" /\ raised = ""
    /\ requests = 0 /\ waits = <<>> /\ last_resp = NoResp /\ only429 = TRUE

InLoop == rstate = "running" /\ attempt < API_MAX_RETRIES

\* lines 209-210, 214-215: sleep, then continue with the next attempt
SleepAndContinue(w) ==
    /\ waits' = Append(waits, w)
    /\ attempt' = attempt + 1
    /\ UNCHANGED <<rstate, raised>>

\* lines 227-233: the except clause around the attempt
Except(exc, jitter) ==
    /\ last_exc' = exc
    /\ IF attempt < API_MAX_RETRIES - 1
       THEN SleepAndContinue(Backoff(attempt, jitter))
       ELSE /\ rstate' = "raised"
            /\ raised' = exc
            /\ UNCHANGED <<attempt, waits>>

\* lines 200-210: HTTP 429
Resp429 ==
    /\ InLoop
    /\ \E ra \in RetryAfters, jitter \in Jitters :
          /\ last_resp' = Resp("429", ra)
          /\ only429' = (only429 /\ ra.retry_after = "absent")
          /\ SleepAndContinue(Wait429(attempt, ra, jitter))
    /\ requests' = requests + 1
    /\ UNCHANGED <<last_exc, pipeVars, batchVars, otherVars>>

\* lines 212-215: HTTP 5xx
Resp5xx ==
    /\ InLoop
    /\ \E ra \in RetryAfters, jitter \in Jitters :
          /\ last_resp' = Resp("5xx", ra)
          /\ SleepAndContinue(Backoff(attempt, jitter))
    /\ only429' = FALSE
    /\ requests' = requests + 1
    /\ UNCHANGED <<last_exc, pipeVars, batchVars, otherVars>>

\* line 217: raise_for_status raises HTTPError for any other 4xx status
RespClientError ==
    /\ InLoop
    /\ \E jitter \in Jitters : Except("HTTPError", jitter)
    /\ last_resp' = Resp("4xx", [retry_after |-> "absent", secs |-> 0])
    /\ only429' = FALSE
    /\ requests' = requests + 1
    /\ UNCHANGED <<pipeVars, batchVars, otherVars>>

\* lines 218-224: a success status whose body is not JSON
RespMalformed ==
    /\ InLoop
    /\ \E jitter \in Jitters :
          IF attempt < API_MAX_RETRIES - 1
          THEN /\ SleepAndContinue(Backoff(attempt, jitter))
               /\ UNCHANGED last_exc
          ELSE Except("ValueError", jitter)
    /\ last_resp' = Resp("malformed", [retry_after |-> "absent", secs |-> 0])
    /\ only429' = FALSE
    /\ requests' = requests + 1
    /\ UNCHANGED <<pipeVars, batchVars, otherVars>>

\* line 225: a JSON body is returned
RespJson ==
    /\ InLoop
    /\ rstate' = "returned"
    /\ last_resp' = Resp("json", [retry_after |-> "absent", secs |-> 0])
    /\ only429' = FALSE
    /\ requests' = requests + 1
    /\ UNCHANGED <<attempt, last_exc, raised, waits, pipeVars, batchVars, otherVars>>

\* line 198: session.get itself raises (connection error, timeout)
RespNetworkError ==
    /\ InLoop
    /\ \E jitter \in Jitters : Except("ConnectionError", jitter)
    /\ last_resp' = Resp("network", [retry_after |-> "absent", secs |-> 0])
    /\ only429' = FALSE
    /\ requests' = requests + 1
    /\ UNCHANGED <<pipeVars, batchVars, otherVars>>

\* line 234: the for loop ran out of attempts
LoopExhausted ==
    /\ rstate = "running" /\ attempt = API_MAX_RETRIES
    /\ rstate' = "raised"
    /\ raised' = "RuntimeError(unreachable)"
    /\ UNCHANGED <<attempt, last_exc, requests, waits, last_resp, only429, pipeVars, batchVars, otherVars>>

NextRetry ==
    \/ Resp429 \/ Resp5xx \/ RespClientError \/ RespMalformed \/ RespJson
    \/ RespNetworkError \/ LoopExhausted

SpecRetry == InitRetry /\ [][NextRetry]_vars

(* ----------------------- normalize_mst on its own ---------------------- *)
\* A third view: one cell of the tax identifier column, drawn from a bounded
\* set of raw strings, goes through the two applications of normalize_mst
\* that every cell goes through (read_excel line 456, process_excel line 475).

\* the longest run of digits in a raw cell
MaxDigits == 14

DigitChars == <<"0", "1", "2", "3", "4", "5", "6", "7", "8", "9">>

\* the first k digits of 1234567890123...
DigitRun(k) == [i \in 1..k |-> DigitChars[(i % 10) + 1]]

\* c typed after the j-th character of d
Insert(d, j, c) == SubSeq(d, 1, j) \o <<c>> \o SubSeq(d, j + 1, Len(d))

\* what is found in front of, inside and behind the digits of a cell
Leads == {<<>>, <<" ">>, <<"-">>}

Junk == {" ", "-", "a", "."}

Trails == {<<>>, <<"\t">>, <<"-">>, <<"x">>}

JunkAt == {3, 10}

RawCells ==
    LET runs == {DigitRun(k) : k \in 0..MaxDigits}
        split == {Insert(d, j, c) : d \in {r \in runs : Len(r) > 10},
                                    j \in JunkAt, c \in Junk}
                 \cup {Insert(d, 3, c) : d \in {r \in runs : Len(r) \in 3..10},
                                         c \in Junk}
    IN  {l \o m \o t : l \in Leads, m \in runs \cup split, t \in Trails}

InitNormalize ==
    /\ PipeIdle /\ RetryIdle /\ BatchIdle /\ LoadIdle /\ PoolIdle
    /\ fn_arg \in RawCells
    /\ fn_res = <<>>

normFrame == <<pipeVars, retryVars, batchVars, loadVars, poolVars>>

\* line 456: df[COL_MST] = df[COL_MST].apply(normalize_mst)
NormalizeCell ==
    /\ fn_res = <<>>
    /\ fn_res' = <<normalize_mst(fn_arg)>>
    /\ UNCHANGED <<fn_arg, normFrame>>

\* line 475: df["mst_norm"] = df[COL_MST].apply(normalize_mst)
NormalizeAgain ==
    /\ Len(fn_res) = 1
    /\ fn_res' = Append(fn_res, normalize_mst(fn_res[1]))
    /\ UNCHANGED <<fn_arg, normFrame>>

NextNormalize == NormalizeCell \/ NormalizeAgain

SpecNormalize == InitNormalize /\ [][NextNormalize]_vars

(* --------------------- tvpl_pick_best_row on its own ------------------- *)
\* A fourth view: the result table of the secondary search, drawn from a
\* bounded set of tables, is given to tvpl_pick_best_row as tvpl_search_by_mst
\* does (lines 427-429).

\* the most rows a result table has
MaxCandidates == 3

\* re.sub(r"\D", "", mst or "")
mst_digits_Raw(mst) == mst

mst_digits(mst) == SelectSeq(mst, IsDigit)

\* the text of td[2]//strong of a row; a row without that element gives ""
CellTexts == {<<"0", "1">>, <<"0", "-", "1">>, <<"2">>, <<>>}

\* a row of the table: whether its class has item_mst, and its cell text
TableRows == [item : BOOLEAN, cell : CellTexts]

Tables == UNION {[1..k -> TableRows] : k \in 0..MaxCandidates}

Queries == {<<"0", "1">>, <<"0", "-", "1">>, <<"2">>, <<"x">>, <<>>}

\* lines 408-410: the rows with class item_mst, or every row when there is none
Candidates(table) ==
    LET items == {i \in DOMAIN table : table[i].item}
    IN  IF items # {} THEN items ELSE DOMAIN table

First(S) == CHOOSE i \in S : \A j \in S : i <= j

\* lines 406-420; the row is given by its index in the table, None by 0
tvpl_pick_best_row(table, mst) ==
    LET mst_norm == mst_digits(mst)
        rows == Candidates(table)
        hits == {i \in rows : mst_digits(table[i].cell) = mst_norm /\ mst_norm # <<>>}
    IN  IF hits # {} THEN First(hits)
        ELSE IF rows # {} THEN First(rows) ELSE 0

InitPick ==
    /\ PipeIdle /\ RetryIdle /\ BatchIdle /\ LoadIdle /\ PoolIdle
    /\ fn_arg \in [table : Tables, mst : Queries]
    /\ fn_res = <<>>

\* line 427: row = tvpl_pick_best_row(table, mst)
PickBestRow ==
    /\ fn_res = <<>>
    /\ fn_res' = <<tvpl_pick_best_row(fn_arg.table, fn_arg.mst)>>
    /\ UNCHANGED <<fn_arg, normFrame>>

\* lines 428-434: no row raises tvpl_no_rows, a row is clicked
AfterPick ==
    /\ Len(fn_res) = 1
    /\ fn_res' = Append(fn_res, IF fn_res[1] = 0 THEN "tvpl_no_rows" ELSE "click")
    /\ UNCHANGED <<fn_arg, normFrame>>

NextPick == PickBestRow \/ AfterPick

SpecPick == InitPick /\ [][NextPick]_vars

(* -------------------------- tra_cuu_nhieu_mst -------------------------- *)
\* The pooled lookup of test_mst.py: the calling thread strips the list,
\* submits one call of tra_cuu_1_mst per identifier to a ThreadPoolExecutor
\* of max_workers threads, and stores the results as the calls complete.

\* the longest mst_list
MaxList == 3

\* the largest max_workers
MaxPool == 2

\* entries of mst_list: two identifiers, one of them also with a blank in
\* front, and a blank entry
ListEntries == {<<"1">>, <<" ", "1">>, <<"2">>, <<" ">>}

RawLists == UNION {[1..k -> ListEntries] : k \in 0..MaxList}

\* line 78: [m.strip() for m in mst_list if m and m.strip()]
StripList(l) ==
    LET stripped == [i \in 1..Len(l) |-> StripSet(l[i], Whitespace)]
    IN  SelectSeq(stripped, LAMBDA m : m # <<>>)

InitPool ==
    /\ PipeIdle /\ RetryIdle /\ BatchIdle /\ LoadIdle /\ FnIdle
    /\ pool_pc = "strip"
    /\ raw_list \in RawLists
    /\ max_workers \in 1..MaxPool
    /\ mst_list = <<>>
    /\ futures = <<>>
    /\ worker = [w \in 1..max_workers |-> 0]
    /\ successes = <<>> /\ errors = <<>>
    /\ writes = <<>>

poolFrame == <<pipeVars, retryVars, batchVars, loadVars, fnVars>>

\* lines 78-83
Strip ==
    /\ pool_pc = "strip"
    /\ mst_list' = StripList(raw_list)
    /\ pool_pc' = IF mst_list' = <<>> THEN "collect" ELSE "submit"
    /\ UNCHANGED <<raw_list, max_workers, futures, worker, successes, errors,
                   writes, poolFrame>>

\* line 84: ex.submit(tra_cuu_1_mst, session, cfg, mst) for the next mst
Submit ==
    /\ pool_pc = "submit"
    /\ futures' = Append(futures, [mst |-> mst_list[Len(futures) + 1],
                                   state |-> "pending", yielded |-> FALSE])
    /\ pool_pc' = IF Len(futures') = Len(mst_list) THEN "collect" ELSE "submit"
    /\ UNCHANGED <<raw_list, max_workers, mst_list, worker, successes, errors,
                   writes, poolFrame>>

\* a pool thread takes a work item only when it runs none
Idle_Always(w) == TRUE

Idle(w) == worker[w] = 0

Pending == {i \in 1..Len(futures) : futures[i].state = "pending"}

\* line 83: a thread of the pool takes the oldest call not yet started
WorkerTake(w) ==
    /\ Idle(w)
    /\ Pending # {}
    /\ LET i == First(Pending)
       IN  /\ futures' = [futures EXCEPT ![i].state = "running"]
           /\ worker' = [worker EXCEPT ![w] = i]
    /\ UNCHANGED <<pool_pc, raw_list, max_workers, mst_list, successes, errors,
                   writes, poolFrame>>

\* lines 37-65 run by a pool thread: tra_cuu_1_mst returns the body or raises
WorkerDone(w) ==
    /\ worker[w] # 0
    /\ \E o \in {"returned", "raised"} :
          futures' = [futures EXCEPT ![worker[w]].state = o]
    /\ worker' = [worker EXCEPT ![w] = 0]
    /\ UNCHANGED <<pool_pc, raw_list, max_workers, mst_list, successes, errors,
                   writes, poolFrame>>

\* d[k] = v on a dict given as a function
Store(d, k, v) == [x \in DOMAIN d \cup {k} |-> IF x = k THEN v ELSE d[x]]

\* lines 86-91: as_completed yields a completed future and the calling
\* thread stores its result or its exception under the identifier
Collect ==
    /\ pool_pc = "collect"
    /\ \E i \in 1..Len(futures) :
          /\ futures[i].state \in {"returned", "raised"}
          /\ ~futures[i].yielded
          /\ futures' = [futures EXCEPT ![i].yielded = TRUE]
          /\ IF futures[i].state = "returned"
             THEN /\ successes' = Store(successes, futures[i].mst, i)
                  /\ UNCHANGED errors
                  /\ writes' = Append(writes, [thread |-> "main", map |-> "successes",
                                               key |-> futures[i].mst])
             ELSE /\ errors' = Store(errors, futures[i].mst, i)
                  /\ UNCHANGED successes
                  /\ writes' = Append(writes, [thread |-> "main", map |-> "errors",
                                               key |-> futures[i].mst])
    /\ UNCHANGED <<pool_pc, raw_list, max_workers, mst_list, worker, poolFrame>>

\* lines 86, 93: every future was yielded, the pool and the session are
\* closed and the two maps are returned
Return ==
    /\ pool_pc = "collect"
    /\ \A i \in 1..Len(futures) : futures[i].yielded
    /\ pool_pc' = "returned"
    /\ UNCHANGED <<raw_list, max_workers, mst_list, futures, worker, successes,
                   errors, writes, poolFrame>>

NextPool ==
    \/ Strip \/ Submit \/ Collect \/ Return
    \/ \E w \in DOMAIN worker : WorkerTake(w) \/ WorkerDone(w)

SpecPool == InitPool /\ [][NextPool]_vars

(* ------------------------------ properties ----------------------------- *)
Range(s) == {s[i] : i \in 1..Len(s)}

InRow == n \in RowSet /\ df # <<>>

BrowserTiers == {"direct", "relink", "primary", "secondary"}

\* the call of tier t in the current row ended with r
Ended(t, r) == <<t, r>> \in Range(observed)

\* the call of tier t in the current row raised
Failed(t) == \E k \in 1..Len(observed) : observed[k][1] = t /\ observed[k][2] # "ok"

IsApiCall(c) == c.tier = "api"

IsRelinkCall(c) == c.tier = "relink"

ApiCalls == SelectSeq(calls, IsApiCall)

RelinkCalls == SelectSeq(calls, IsRelinkCall)

Cell(k) == df[n][k]

\* position of a call in the fixed order of the chain
CallRank(c) ==
    CASE c.tier = "direct" -> 1
      [] c.op = "api_vitax_get_name" -> 2
      [] c.op = "api_vietqr_get_name" -> 3
      [] c.tier = "relink" -> 4
      [] c.tier = "primary" -> 5
      [] c.tier = "secondary" -> 6

\* C1: when the direct link fetch of a row succeeds, the row is a success
\* tagged customer_masothue_link and the only external call of the row is the
\* direct link fetch: no name lookup, no relink fetch, no search.
C1_DirectLinkShortCircuit ==
    (InRow /\ Ended("direct", "ok")) =>
        /\ Cell("crawl_status") = <<"ok_", "masothue_link">>
        /\ Cell("crawl_source") = <<"customer_masothue_link">>
        /\ Len(calls) = 1
        /\ calls[1].tier = "direct" /\ calls[1].op = "masothue_open_link"

C1_Witness == InRow /\ n = NRows /\ pc = "pace" /\ Ended("direct", "ok")

\* C2: in every row the calls are issued in the order direct link, vitax,
\* vietqr, relink fetch, primary search, secondary search, each at most once;
\* a call is issued only after every browser tier called before it has
\* failed, and nothing is called after a tier has succeeded.
C2_TiersOnceInOrder ==
    /\ \A i, j \in 1..Len(calls) : i < j => CallRank(calls[i]) < CallRank(calls[j])
    /\ \A i, j \in 1..Len(calls) :
          (i < j /\ calls[i].tier \in BrowserTiers) => Failed(calls[i].tier)
    /\ \A k \in 1..Len(observed) :
          (observed[k][1] \in BrowserTiers /\ observed[k][2] = "ok") =>
              /\ k = Len(observed)
              /\ calls[Len(calls)].tier = observed[k][1]
              /\ pc \notin BrowserTiers \cup {"api"}

C2_Witness == InRow /\ pc = "pace" /\ Len(calls) = 6 /\ Failed("secondary")

\* C7: the name lookup asks vitax first and vietqr only if vitax raised or
\* gave no name; the recovered name is the first non-empty answer in that
\* order and api_source is the API that gave it; with no answer both the
\* name and the source are empty.
C7_NameRecoveryOrder ==
    (InRow /\ ApiCalls # <<>>) =>
        LET A == ApiCalls
        IN  /\ A[1].op = "api_vitax_get_name"
            /\ Len(A) <= 2
            /\ Len(A) = 2 => A[2].op = "api_vietqr_get_name"
            /\ (Len(A) = 2) <=> (A[1].res \in {"raise", "empty"})
            /\ A[1].res = "name" => (name_api = A[1].val /\ src = <<"vitax">>)
            /\ (Len(A) = 2 /\ A[2].res = "name") =>
                  (name_api = A[2].val /\ src = <<"vietqr">>)
            /\ (Len(A) = 2 /\ A[2].res # "name") => (name_api = <<>> /\ src = <<>>)
            /\ name_api = <<>> <=> src = <<>>
            /\ Cell("api_name") = name_api
            /\ Cell("api_source") = src

C7_Witness ==
    /\ InRow /\ Len(ApiCalls) = 2
    /\ ApiCalls[1].res = "raise" /\ ApiCalls[2].res = "name"
    /\ Cell("api_source") = <<"vietqr">>

\* C8: after a name lookup that recovered a name, the link is rebuilt from
\* that name and fetched exactly once, right after the lookup, and a success
\* of that fetch tags the row api_masothue_link(<source of the name>); after
\* a lookup that recovered no name there is no relink fetch and the next
\* call is the primary search.
C8_RelinkOnce ==
    (InRow /\ ApiCalls # <<>>) =>
        LET k == 1 + Len(ApiCalls)
            atCall == pc = (IF name_api # <<>> THEN "relink" ELSE "primary") /\ nav = "idle"
        IN  /\ atCall <=> Len(calls) = k
            /\ IF name_api # <<>>
               THEN /\ Cell("link_masothue_api") = build_masothue_link(name_api, CurMst)
                    /\ Len(RelinkCalls) = (IF atCall THEN 0 ELSE 1)
                    /\ ~atCall => /\ calls[k + 1].tier = "relink"
                                  /\ calls[k + 1].op = "masothue_open_link"
                                  /\ calls[k + 1].arg = Cell("link_masothue_api")
                    /\ Ended("relink", "ok") =>
                          /\ Cell("crawl_status") = <<"ok_", "masothue_link">>
                          /\ Cell("crawl_source") = <<"api_masothue_link(">> \o src \o <<")">>
                          /\ src \in {<<"vitax">>, <<"vietqr">>}
                          /\ Cell("api_source") = src
               ELSE /\ RelinkCalls = <<>>
                    /\ Cell("link_masothue_api") = <<>>
                    /\ ~atCall => calls[k + 1].tier = "primary"

C8_Witness == InRow /\ pc = "pace" /\ Ended("relink", "ok") /\ src = <<"vietqr">>

IsErrLabel(t) == t \in {"e1=", "e2=", "e3=", "e4="}

\* the labels of an error trail, in order
TrailLabels(t) == SelectSeq(t, IsErrLabel)

\* the <<label, exception>> pairs an error trail holds
TrailEntries(t) == {<<t[i], t[i + 1]>> : i \in {j \in 1..(Len(t) - 1) : IsErrLabel(t[j])}}

TrailErrors(t) == {p[2] : p \in TrailEntries(t)}

\* C3: a row in which every tier failed records exactly four error entries,
\* one per tier in tier order, and every exception raised during the row,
\* those of the name-lookup APIs included, is in the recorded trail.
C3_FourEntriesNothingDiscarded ==
    (InRow /\ Cell("crawl_status") = <<"error">>) =>
        /\ TrailLabels(Cell("crawl_error")) = <<"e1=", "e2=", "e3=", "e4=">>
        /\ \A k \in 1..Len(observed) :
              observed[k][2] # "ok" => observed[k][2] \in TrailErrors(Cell("crawl_error"))

TierLabel(t) == IF t = "direct" THEN "e1=" ELSE "e2="

\* C4: when the direct link and the name recovery (with its relink fetch)
\* failed and the primary search succeeds, the row is a success tagged
\* fallback_search and the exceptions of the failed link fetches are still
\* in the row, in crawl_error or in api_error.
C4_EarlierErrorsDiscoverable ==
    (InRow /\ Ended("primary", "ok")) =>
        /\ Cell("crawl_status") = <<"ok_", "masothue_search">>
        /\ Cell("crawl_source") = <<"fallback_search">>
        /\ \A k \in 1..Len(observed) :
              (observed[k][1] \in {"direct", "relink"} /\ observed[k][2] # "ok") =>
                  <<TierLabel(observed[k][1]), observed[k][2]>>
                      \in TrailEntries(Cell("crawl_error")) \cup TrailEntries(Cell("api_error"))

\* C5: for a row whose normalized identifier is empty no query is issued:
\* no link fetch, no name lookup, no primary and no secondary search.
C5_EmptyIdentifierNoQuery == (InRow /\ CurMst = <<>>) => calls = <<>>

\* C6: masothue_open_link is never called with an empty URL, neither for the
\* link built from the customer name nor for the link rebuilt from the
\* recovered name.
C6_NoFetchOfEmptyLink ==
    \A i \in 1..Len(calls) : calls[i].op = "masothue_open_link" => calls[i].arg # <<>>

NonDecreasing(s) == \A i \in 1..(Len(s) - 1) : s[i] <= s[i + 1]

\* C9: when five consecutive responses are 429 without Retry-After, the
\* waits chosen are non-decreasing from one attempt to the next and none
\* exceeds the cap; a sixth request is never issued.
C9_WaitsNonDecreasingBounded ==
    /\ requests <= API_MAX_RETRIES
    /\ (only429 /\ requests = API_MAX_RETRIES) =>
          /\ NonDecreasing(waits)
          /\ \A i \in 1..Len(waits) : waits[i] <= HalfSeconds(API_BACKOFF_CAP)

\* the exception that reports the given outcome of session.get
ReportsFault(exc, resp) ==
    CASE resp.kind = "network" -> exc = "ConnectionError"
      [] resp.kind = "malformed" -> exc = "ValueError"
      [] resp.kind \in {"429", "5xx", "4xx"} -> exc = "HTTPError"
      [] OTHER -> FALSE

\* C10: when request_json_with_retry gives up, the exception it raises is
\* the fault of the last attempt, whatever the sequence of faults was.
C10_RaisesLastFault == rstate = "raised" => ReportsFault(raised, last_resp)

\* the name lookup of the current row: some call raised / some call gave a name
LookupRaised == \E i \in 1..Len(ApiCalls) : ApiCalls[i].res = "raise"

LookupNamed == \E i \in 1..Len(ApiCalls) : ApiCalls[i].res = "name"

\* C11: an exception raised by a name-lookup call never leaves the row: the
\* run is not aborted, and when no call of the lookup gave a name the
\* recovered name is empty and the next call of the row is the primary
\* search.
C11_LookupFailureContained ==
    (InRow /\ LookupRaised) =>
        /\ pc # "aborted"
        /\ ~LookupNamed =>
              /\ name_api = <<>>
              /\ Cell("api_name") = <<>>
              /\ IF Len(calls) = 1 + Len(ApiCalls)
                 THEN pc = "primary" /\ nav = "idle"
                 ELSE calls[2 + Len(ApiCalls)].op = "masothue_search_by_mst"

C11_Witness ==
    /\ InRow /\ Len(ApiCalls) = 2
    /\ ApiCalls[1].res = "raise" /\ ApiCalls[2].res = "raise"
    /\ Ended("primary", "ok")

\* C12: a non-429 HTTP 4xx response is not retried: once session.get has
\* answered with one, request_json_with_retry has raised HTTPError to its
\* caller, without a wait and without a further attempt.
C12_ClientErrorNotRetried ==
    last_resp.kind = "4xx" => (rstate = "raised" /\ raised = "HTTPError")

BlockedError == "cloudflare_still_present_after_manual"

\* C13: whenever the challenge is still shown when an operator pause ends,
\* the call in which the pause was entered fails with the blocked error:
\* the tier fails with it, and at warm-up the run is aborted; this holds
\* for the pause of safe_get and for the pause after the primary search.
C13_StillBlockedFailsTier ==
    \A p \in still :
        IF p[1] = "warmup" THEN pc = "aborted" ELSE Ended(p[1], BlockedError)

\* C14: while the run is blocked in an operator pause, the only step it can
\* take is the return of input(): before that no call is issued, no row is
\* started or finished and no output sheet is written.
C14_PauseBlocksPipeline ==
    [][nav # "idle" =>
          /\ ContinueGet \/ ContinueSearch \/ ContinueWarmup
          /\ calls' = calls
          /\ out_full' = out_full /\ out_links' = out_links]_vars

C14_Witness == InRow /\ n = NRows /\ nav = "pause_get" /\ pc = "secondary"

\* row i has a terminal status: a success tag, or an error with its trail
Terminal(i) ==
    \/ StartsWithOk(df[i]["crawl_status"])
    \/ df[i]["crawl_status"] = <<"error">> /\ df[i]["crawl_error"] # <<>>

Untouched(i) == df[i]["crawl_status"] = <<>> /\ df[i]["crawl_error"] = <<>>

RowOver == pc \in {"pace", "quit", "final", "move", "done"}

\* C15: no tier outcome aborts the batch (only the warm-up, before the first
\* row, can); rows get their terminal status one at a time in input order,
\* each row once (ok + fail counts the rows done), and the rows after the
\* current one are untouched; the loop is left only after the last row.
C15_EveryRowOnceInOrder ==
    df # <<>> =>
        /\ pc = "aborted" => n = 0
        /\ \A i \in RowSet :
              /\ (i < n \/ (i = n /\ RowOver)) => Terminal(i)
              /\ (i > n \/ (i = n /\ ~RowOver)) => Untouched(i)
        /\ ok + fail = Cardinality({i \in RowSet : Terminal(i)})
        /\ pc \in {"quit", "final", "move", "done"} => n = NRows

C15_Witness ==
    /\ pc = "done"
    /\ df[1]["crawl_status"] = <<"error">>
    /\ StartsWithOk(df[NRows]["crawl_status"])

\* C20: once the outputs are written, the full sheet holds every input row
\* in order, and the failed-only sheet holds exactly the rows whose status
\* is not a success tag, each once, each with a non-empty error trail.
C20_FullAndFailedPartition ==
    pc \in {"move", "done"} =>
        /\ out_full.exists /\ out_failed.exists
        /\ Len(out_full.rows) = NRows
        /\ \A i \in RowSet :
              /\ out_full.rows[i] = df[i]
              /\ out_full.rows[i][COL_STT] = <<ToString(i)>>
              /\ out_full.rows[i][COL_CUSTOMER] = excel[i].name
              /\ ~StartsWithOk(df[i]["crawl_status"])
                    <=> (\E j \in 1..Len(out_failed.rows) : out_failed.rows[j] = df[i])
        /\ Len(out_failed.rows)
              = Cardinality({i \in RowSet : ~StartsWithOk(df[i]["crawl_status"])})
        /\ \A j \in 1..Len(out_failed.rows) :
              /\ ~StartsWithOk(out_failed.rows[j]["crawl_status"])
              /\ out_failed.rows[j]["crawl_error"] # <<>>
              /\ "e1=" \in Range(out_failed.rows[j]["crawl_error"])

C20_Witness ==
    /\ pc = "done" /\ Len(out_failed.rows) = 1
    /\ StartsWithOk(df[1]["crawl_status"])

\* row i of df is held, as it is now, by the last completed periodic full
\* checkpoint
InCkpt(i) == ckpt.full.exists /\ ckpt.full.rows[i] = df[i]

\* rows with a terminal status in memory that the checkpoint does not hold
Unsaved == {i \in DOMAIN df : df[i]["crawl_status"] # <<>> /\ ~InCkpt(i)}

C17_MoveIsLast ==
    /\ input_loc = "done" =>
          /\ pc = "done"
          /\ out_full = Sheet(cols, df)
          /\ out_failed = Sheet(cols, FilterRows(df, 1))
          /\ out_links = Project(cols, df)
          /\ Resolved(df) = BatchRows
    /\ pc # "done" => input_loc = "pending"

C17_Witness == pc = "done" /\ input_loc = "done" /\ run = 1 /\ fail > 0

\* C18: when a run ends early and a periodic checkpoint had been completed
\* before, the full and the links files are readable workbooks that hold
\* that checkpoint (or the complete final sheets written over it).
C18_CheckpointSurvivesAbort ==
    (pc \in {"aborted", "crashed"} /\ ckpt.full.exists /\ ckpt.links.exists) =>
        /\ out_full \in {ckpt.full, Sheet(cols, df)}
        /\ out_links \in {ckpt.links, Project(cols, df)}

\* the final df of a run of process_excel that is not cut short: every row
\* as its chain leaves it (the chain of a row writes to that row only)
Uninterrupted ==
    LET fresh == [j \in BatchRowSet |-> BatchReadRow(j)]
    IN  [i \in BatchRowSet |-> RowResult(fresh, i, registry[i])[i]]

\* C19: a run that completes, whether it is the first or a run started
\* again after an earlier one was cut short behind a checkpoint, leaves the
\* outputs of an uninterrupted run on the same registry answers: every row
\* once, in order, with the same cells; every run works through the rows
\* from the first one, so the rows before the current one are resolved.
C19_RerunSameOutputs ==
    /\ \A i \in DOMAIN df : i < n => df[i]["crawl_status"] # <<>>
    /\ pc = "done" =>
          /\ out_full = Sheet(BatchCols, Uninterrupted)
          /\ out_failed = Sheet(BatchCols, FilterRows(Uninterrupted, 1))
          /\ out_links = Project(BatchCols, Uninterrupted)
          /\ Len(out_full.rows) = BatchRows
          /\ \A i, j \in 1..Len(out_full.rows) :
                i # j => out_full.rows[i][COL_STT] # out_full.rows[j][COL_STT]

C19_Witness ==
    pc = "done" /\ run = 2 /\ crash_n >= CHECKPOINT_EVERY /\ fail > 0

\* what is left of a raw cell once whitespace and every character other
\* than a digit or '-' is dropped
Reduced(x) == SelectSeq(x, IsMstChar)

AllDigits(x) == \A i \in 1..Len(x) : x[i] \in Digits

\* C21: applying normalize_mst to a value normalize_mst returned gives that
\* value again, for every raw cell, also for one that comes down to 13
\* digits only after its whitespace and other characters are stripped.
C21_NormalizeIdempotent == Len(fn_res) = 2 => fn_res[2] = fn_res[1]

C21_Witness ==
    /\ Len(fn_res) = 2
    /\ \E i \in 1..Len(fn_arg) : fn_arg[i] \notin Digits \cup {"-"}
    /\ Len(fn_arg) > 13
    /\ is_13_numbers(Reduced(fn_arg))
    /\ Len(fn_res[1]) = 14 /\ fn_res[1][11] = "-"
    /\ fn_res[2] = fn_res[1]

\* C22: the value normalize_mst returns holds only digits and at most one
\* '-', and that '-' is neither its first nor its last character.
C22_CanonicalForm ==
    Len(fn_res) >= 1 =>
        LET r == fn_res[1]
        IN  /\ \A i \in 1..Len(r) : r[i] \in Digits \cup {"-"}
            /\ Cardinality({i \in 1..Len(r) : r[i] = "-"}) <= 1
            /\ r # <<>> => r[1] # "-" /\ r[Len(r)] # "-"

\* C23: a raw cell that comes down to exactly 13 digits and no '-' is
\* returned with '-' after the 10th digit, and a cell made of digits only,
\* of any other length, is returned as it is.
C23_DashAfterTenth ==
    Len(fn_res) >= 1 =>
        LET d == Reduced(fn_arg)
        IN  /\ (AllDigits(d) /\ Len(d) = 13) =>
                   fn_res[1] = SubSeq(d, 1, 10) \o <<"-">> \o SubSeq(d, 11, 13)
            /\ (AllDigits(fn_arg) /\ Len(fn_arg) # 13) => fn_res[1] = fn_arg

C23_Witness ==
    /\ Len(fn_res) = 1
    /\ fn_arg = DigitRun(13)
    /\ fn_res[1] = DigitRun(10) \o <<"-">> \o SubSeq(DigitRun(13), 11, 13)

C23_WitnessTen ==
    /\ Len(fn_res) = 1
    /\ fn_arg = DigitRun(10)
    /\ fn_res[1] = fn_arg

\* C24: when the input sheet lacks any of the four required columns, the
\* load fails with an error that names every column that is missing, no
\* browser has been acquired, no output file has been written and the input
\* file is still where it was.
C24_MissingColumnsAllNamed ==
    (~(RequiredSet \subseteq present) /\ pc # "read") =>
        /\ pc = "aborted"
        /\ load_error.type = "ValueError"
        /\ load_error.names = RequiredSet \ present
        /\ driver = "none"
        /\ out_full = NoFile /\ out_failed = NoFile /\ out_links = NoFile
        /\ input_loc = "pending"

\* C27: a step that adds columns puts them behind the columns that were
\* there, which keep their order; in every row other than the one being
\* resolved the cells of the columns that were there keep their values and
\* the cells of the new columns are the empty string.
C27_NewColumnsAppended ==
    [][df # <<>> =>
          /\ Len(cols') >= Len(cols)
          /\ SubSeq(cols', 1, Len(cols)) = cols
          /\ \A i \in DOMAIN df :
                /\ DOMAIN df'[i] = ColSet(cols')
                /\ i # n =>
                      /\ \A c \in ColSet(cols) : df'[i][c] = df[i][c]
                      /\ \A c \in ColSet(cols') \ ColSet(cols) : df'[i][c] = Empty]_vars

\* the second row brought columns the first row did not have
C27_Witness ==
    /\ pc = "pace" /\ n = NRows
    /\ df[1]["crawl_status"] = <<"ok_", "masothue_link">>
    /\ df[NRows]["crawl_status"] = <<"ok_", "tvpl_search">>
    /\ cols = InitialCols \o Keys(MasothueKv(Empty)) \o Keys(TvplKv(Empty))
    /\ df[1]["tvpl_Ten"] = Empty
    /\ df[NRows]["mst_t1_Ten"] = Empty
    /\ df[NRows]["tvpl_Ten"] # Empty

StatusPairs ==
    { << <<"ok_", "masothue_link">>, <<"customer_masothue_link">> >>,
      << <<"ok_", "masothue_link">>, <<"api_masothue_link(", "vitax", ")">> >>,
      << <<"ok_", "masothue_link">>, <<"api_masothue_link(", "vietqr", ")">> >>,
      << <<"ok_", "masothue_search">>, <<"fallback_search">> >>,
      << <<"ok_", "tvpl_search">>, <<"fallback_search">> >>,
      << <<"error">>, <<"failed_all">> >> }

\* C29: every processed row has one of the six status/source pairs, has an
\* error trail exactly when its status is error, and has empty api_name,
\* api_source and link_masothue_api when its direct link resolved it.
C29_StatusSourcePairs ==
    df # <<>> =>
        \A i \in RowSet :
            (i < n \/ (i = n /\ RowOver)) =>
                /\ <<df[i]["crawl_status"], df[i]["crawl_source"]>> \in StatusPairs
                /\ df[i]["crawl_error"] # Empty <=> df[i]["crawl_status"] = <<"error">>
                /\ df[i]["crawl_source"] = <<"customer_masothue_link">> =>
                      /\ df[i]["api_name"] = Empty
                      /\ df[i]["api_source"] = Empty
                      /\ df[i]["link_masothue_api"] = Empty

C29_Witness ==
    /\ pc = "done"
    /\ df[1]["crawl_source"] = <<"customer_masothue_link">>
    /\ df[NRows]["crawl_status"] = <<"error">>
    /\ df[NRows]["api_name"] # Empty

\* C30: process_excel is not left with a browser that make_driver opened and
\* driver.quit() did not close, whether it ends normally, by an exception of
\* the warm-up navigation or by a fatal error in the row loop.
C30_DriverReleasedOnExit ==
    (pc \in {"aborted", "done"} /\ driver # "none") => driver = "quit"

\* C26: the wait that follows a 429 whose Retry-After is a number is that
\* number of seconds, whatever the cap; the wait that follows a 429 without
\* such a header, or any 5xx whatever its headers, is min(cap, base^attempt +
\* jitter) for the attempt just made, and is at most the cap.
C26_WaitAfter429And5xx ==
    last_resp.kind \in {"429", "5xx"} =>
        /\ Len(waits) = attempt
        /\ LET w == waits[Len(waits)]
               k == attempt - 1
               cap == HalfSeconds(API_BACKOFF_CAP)
           IN  IF last_resp.kind = "429" /\ last_resp.retry_after = "number"
               THEN w = HalfSeconds(last_resp.secs)
               ELSE /\ \E j \in Jitters :
                          w = Min(cap, HalfSeconds(Pow(API_BACKOFF_BASE, k)) + j)
                    /\ w <= cap

\* a 429 asked for 100 s, more than the cap, and 100 s were waited
C26_Witness ==
    /\ last_resp.kind = "429" /\ last_resp.retry_after = "number"
    /\ last_resp.secs > API_BACKOFF_CAP
    /\ waits[Len(waits)] = HalfSeconds(last_resp.secs)
    /\ attempt >= 2

\* a 5xx carried a numeric Retry-After and the wait was the backoff
C26_Witness5xx ==
    /\ last_resp.kind = "5xx" /\ last_resp.retry_after = "number"
    /\ waits[Len(waits)] < HalfSeconds(last_resp.secs)

\* the candidate row i carries the queried identifier: same digits, and the
\* query has at least one digit
Matches(i) ==
    LET q == SelectSeq(fn_arg.mst, IsDigit)
    IN  q # <<>> /\ SelectSeq(fn_arg.table[i].cell, IsDigit) = q

\* C28: tvpl_pick_best_row returns the first candidate row whose identifier
\* has the digits of the queried identifier, when the query has a digit;
\* the first candidate when no candidate matches; and none when there is no
\* candidate, in which case tvpl_search_by_mst raises tvpl_no_rows.
C28_PickBestRow ==
    Len(fn_res) >= 1 =>
        LET cand == Candidates(fn_arg.table)
            r == fn_res[1]
        IN  /\ cand = {} =>
                  /\ r = 0
                  /\ Len(fn_res) = 2 => fn_res[2] = "tvpl_no_rows"
            /\ cand # {} =>
                  /\ r \in cand
                  /\ Len(fn_res) = 2 => fn_res[2] # "tvpl_no_rows"
                  /\ IF \E i \in cand : Matches(i)
                     THEN Matches(r) /\ \A i \in cand : i < r => ~Matches(i)
                     ELSE \A i \in cand : r <= i

\* the second and third candidates match, written differently from the query
C28_Witness ==
    /\ Len(fn_res) = 2
    /\ Len(fn_arg.table) = MaxCandidates
    /\ Candidates(fn_arg.table) = DOMAIN fn_arg.table
    /\ ~Matches(1) /\ Matches(2) /\ Matches(3)
    /\ fn_arg.table[2].cell # fn_arg.mst
    /\ fn_res[1] = 2

\* calls of tra_cuu_1_mst that a pool thread has started and not finished
InFlight == {i \in 1..Len(futures) : futures[i].state = "running"}

\* C25: never more than max_workers calls of tra_cuu_1_mst are running, and
\* the successes and errors maps change only in steps of the calling
\* thread, which is collecting: such a step changes no pool thread and no
\* call state, and stores one key in one map.
C25_BoundedPoolSingleWriter ==
    /\ [](Cardinality(InFlight) <= max_workers)
    /\ [](\A k \in 1..Len(writes) : writes[k].thread = "main")
    /\ [][(successes' # successes \/ errors' # errors) =>
             /\ pool_pc = "collect"
             /\ worker' = worker
             /\ \A i \in 1..Len(futures) : futures'[i].state = futures[i].state
             /\ Len(writes') = Len(writes) + 1
             /\ successes' = successes \/ errors' = errors]_vars

\* both pool threads are busy, a third call waits, and a result is stored
C25_Witness ==
    /\ max_workers = MaxPool
    /\ Len(futures) = MaxList
    /\ Cardinality(InFlight) = max_workers
    /\ \A w \in DOMAIN worker : worker[w] # 0
    /\ Len(writes) = 1

\* C31: a call of request_json_with_retry sleeps at most four times, and
\* never after its fifth attempt: when all five attempts have been made no
\* fifth wait has been taken, whatever the faults were.
C31_NoWaitAfterLastAttempt ==
    /\ Len(waits) <= API_MAX_RETRIES - 1
    /\ requests = API_MAX_RETRIES => Len(waits) < requests

\* C32: when tra_cuu_nhieu_mst returns, no identifier is a key of both
\* successes and errors, and the keys of the two maps together are the
\* stripped non-blank identifiers of the list it was given, also when the
\* list holds an identifier more than once.
C32_MapsPartitionIdentifiers ==
    pool_pc = "returned" =>
        /\ DOMAIN successes \cap DOMAIN errors = {}
        /\ DOMAIN successes \cup DOMAIN errors =
              {StripSet(raw_list[i], Whitespace) : i \in 1..Len(raw_list)} \ {<<>>}

====
